---- MODULE Spec2Model ----
(***************************************************************************)
(* State-machine model of the Spanmor chat widget                          *)
(* (src/components/Chatbot.js) and of the proxy route it posts to          *)
(* (src/app/page.js, POST).                                                *)
(*                                                                         *)
(* Strings are sequences of characters.  Every handler of the component is *)
(* one action: the host event loop runs a handler (and the render and      *)
(* effects that follow it) to completion before the next event.  The      *)
(* continuation of a fetch also runs after the unmount cleanup; the state  *)
(* setters it calls are modelled as written, the refs and timers they      *)
(* touch are those of the host.                                            *)
(***************************************************************************)
EXTENDS Integers, Sequences, FiniteSets, TLC

(***************************************************************************)
(* Bounds of the model.                                                    *)
(***************************************************************************)
\* the longest conversation explored: sends are accepted while the list is shorter
MaxMsgs == 5

\* the number of items (links, bare URLs, words) of a text handed to extractLinks
MaxItems == 2

\* the null reference (useRef(null), "" for the session id)
Null == 0

(***************************************************************************)
(* Characters and string helpers.                                          *)
(***************************************************************************)
WS == {" ", "\n"}

RECURSIVE TrimStart(_)
TrimStart(s) ==
    IF s # <<>> /\ Head(s) \in WS THEN TrimStart(Tail(s)) ELSE s

RECURSIVE TrimEnd(_)
TrimEnd(s) ==
    IF s # <<>> /\ s[Len(s)] \in WS THEN TrimEnd(SubSeq(s, 1, Len(s) - 1)) ELSE s

\* String.prototype.trim
Trim(s) == TrimEnd(TrimStart(s))

\* text.slice(0, i) for 0 <= i
Slice(s, i) == SubSeq(s, 1, IF i < Len(s) THEN i ELSE Len(s))

\* raw.replace(/\s+/g, " "): every run of whitespace becomes one space
RECURSIVE CollapseWs(_)
CollapseWs(s) ==
    IF s = <<>> THEN <<>>
    ELSE IF Head(s) \in WS
         THEN <<" ">> \o CollapseWs(TrimStart(s))
         ELSE <<Head(s)>> \o CollapseWs(Tail(s))

\* the characters of the class [.!?...] of normalizeInput
TrailingInputPunct == {".", "!", "?"}

RECURSIVE StripInputPunct(_)
StripInputPunct(s) ==
    IF s # <<>> /\ s[Len(s)] \in TrailingInputPunct
    THEN StripInputPunct(SubSeq(s, 1, Len(s) - 1))
    ELSE s

\* normalizeInput: collapse spaces, trim, drop trailing punctuation
normalizeInput(text) == StripInputPunct(Trim(CollapseWs(text)))

(***************************************************************************)
(* Link extractor (extractLinks and its helpers).                          *)
(*                                                                         *)
(* A URL is written with one character per lexical unit: the scheme        *)
(* "https://", a host label, "/", a path segment, "?", a query parameter   *)
(* "k=v", "&".  The regular expressions of the source only distinguish the *)
(* classes below, and no unit straddles two classes.                       *)
(***************************************************************************)
Schemes == {"https://", "http://"}

\* first index i >= from with s[i] \in S, 0 when there is none
FirstIn(s, from, S) ==
    LET hits == {i \in from..Len(s) : s[i] \in S}
    IN  IF hits = {} THEN 0 ELSE CHOOSE i \in hits : \A j \in hits : i <= j

AllChars(s) == {s[i] : i \in 1..Len(s)}

NoMatch == [ok |-> FALSE]

\* /\[([^\]]+)\]\((https?:\/\/[^\s)]+)\)/ anchored at position p
MdMatchAt(s, p) ==
    IF p > Len(s) \/ s[p] # "[" THEN NoMatch
    ELSE LET q == FirstIn(s, p + 1, {"]"})
         IN  IF q = 0 \/ q = p + 1 \/ q + 2 > Len(s) THEN NoMatch
             ELSE IF s[q + 1] # "(" \/ s[q + 2] \notin Schemes THEN NoMatch
             ELSE LET e == FirstIn(s, q + 3, WS \cup {")"})
                  IN  IF e = 0 \/ e = q + 3 \/ s[e] # ")" THEN NoMatch
                      ELSE [ok |-> TRUE, start |-> p, end |-> e,
                            label |-> SubSeq(s, p + 1, q - 1),
                            url |-> SubSeq(s, q + 2, e - 1)]

\* /(https?:\/\/[^\s]+)/ anchored at position p
BareMatchAt(s, p) ==
    IF p >= Len(s) \/ s[p] \notin Schemes \/ s[p + 1] \in WS THEN NoMatch
    ELSE LET w == FirstIn(s, p + 1, WS)
             e == IF w = 0 THEN Len(s) ELSE w - 1
         IN  [ok |-> TRUE, start |-> p, end |-> e,
              label |-> SubSeq(s, p, e), url |-> SubSeq(s, p, e)]

\* while ((m = md.exec(s)) !== null): the matches of the global regex, left to right
RECURSIVE MdScan(_, _)
MdScan(s, from) ==
    LET starts == {p \in from..Len(s) : MdMatchAt(s, p).ok}
    IN  IF starts = {} THEN <<>>
        ELSE LET p == CHOOSE x \in starts : \A y \in starts : x <= y
                 m == MdMatchAt(s, p)
             IN  <<m>> \o MdScan(s, m.end + 1)

RECURSIVE BareScan(_, _)
BareScan(s, from) ==
    LET starts == {p \in from..Len(s) : BareMatchAt(s, p).ok}
    IN  IF starts = {} THEN <<>>
        ELSE LET p == CHOOSE x \in starts : \A y \in starts : x <= y
                 m == BareMatchAt(s, p)
             IN  <<m>> \o BareScan(s, m.end + 1)

\* the class [\)\]\}\>\.,!?:;] of stripTrailingPunct
TrailingUrlPunct == {")", "]", "}", ">", ".", ",", "!", "?", ":", ";"}

RECURSIVE StripUrlPunct(_)
StripUrlPunct(u) ==
    IF u # <<>> /\ u[Len(u)] \in TrailingUrlPunct
    THEN StripUrlPunct(SubSeq(u, 1, Len(u) - 1))
    ELSE u

stripTrailingPunct(u) == StripUrlPunct(Trim(u))

(***************************************************************************)
(* new URL(...), URLSearchParams, in the notation above.                   *)
(***************************************************************************)
\* characters that end the authority of a URL
AuthorityEnd == {"/", "?", "#"}

\* code points a host may not contain (those of the alphabet used here)
ForbiddenHost == {"[", "]", " ", "\n"}

\* String.prototype.toLowerCase on one unit; the URL parser lowercases the host
Lower(c) ==
    CASE c = "WWW." -> "www."
      [] c = "SPANMOR.COM.AU" -> "spanmor.com.au"
      [] OTHER -> c

LowerSeq(s) == [i \in 1..Len(s) |-> Lower(s[i])]

\* new URL(u): ok is FALSE where the constructor throws
ParseUrl(u) ==
    IF u = <<>> \/ u[1] \notin Schemes THEN [ok |-> FALSE]
    ELSE LET a == FirstIn(u, 2, AuthorityEnd)
             hostEnd == IF a = 0 THEN Len(u) ELSE a - 1
             host == SubSeq(u, 2, hostEnd)
             h == FirstIn(u, 2, {"#"})
             last == IF h = 0 THEN Len(u) ELSE h - 1
             q == FirstIn(SubSeq(u, 1, last), 2, {"?"})
             pathFrom == hostEnd + 1
             pathTo == IF q = 0 THEN last ELSE q - 1
             path == SubSeq(u, pathFrom, pathTo)
             query == IF q = 0 THEN <<>> ELSE SubSeq(u, q + 1, last)
         IN  IF host = <<>> \/ AllChars(host) \cap ForbiddenHost # {}
             THEN [ok |-> FALSE]
             ELSE [ok |-> TRUE,
                   hostname |-> LowerSeq(host),
                   pathname |-> IF path = <<>> THEN <<"/">> ELSE path,
                   \* u.search is "" for an empty query, "?..." otherwise
                   search |-> IF query = <<>> THEN <<>> ELSE <<"?">> \o query]

\* s.split(sep) into the (possibly empty) pieces between separators
RECURSIVE Split(_, _)
Split(s, sep) ==
    LET i == FirstIn(s, 1, {sep})
    IN  IF i = 0 THEN <<s>>
        ELSE <<SubSeq(s, 1, i - 1)>> \o Split(SubSeq(s, i + 1, Len(s)), sep)

NonEmpty(pieces) == SelectSeq(pieces, LAMBDA x : x # <<>>)

\* (u.pathname || "/").split("/").filter(Boolean).length
PathDepth(pathname) == Len(NonEmpty(Split(pathname, "/")))

\* new URLSearchParams(search).entries(): the "k=v" pieces, in order
SearchParams(search) ==
    IF search = <<>> THEN <<>> ELSE NonEmpty(Split(Tail(search), "&"))

\* the key of one entry: the part before "="
ParamKey(entry) ==
    CASE Head(entry) = "ref=1" -> "ref"
      [] Head(entry) = "b=2" -> "b"
      [] Head(entry) = "utm_source=fb" -> "utm_source"
      [] Head(entry) = "UTM_medium=x" -> "UTM_medium"
      [] Head(entry) = "fbclid=x" -> "fbclid"
      [] Head(entry) = "FBCLID=x" -> "FBCLID"
      [] OTHER -> "other"

\* /^utm_/i.test(k)
IsUtm(k) == k \in {"utm_source", "UTM_medium"}

\* k.toLowerCase() === "fbclid"
IsFbclid(k) == k \in {"fbclid", "FBCLID"}

\* entries written as "k=v" already; an entry without "=" serializes as "k="
HasEquals(entry) == ParamKey(entry) # "other"

RECURSIVE JoinAmp(_)
JoinAmp(entries) ==
    IF entries = <<>> THEN <<>>
    ELSE LET e == Head(entries)
             w == IF HasEquals(e) THEN e ELSE e \o <<"=">>
         IN  IF Len(entries) = 1 THEN w ELSE w \o <<"&">> \o JoinAmp(Tail(entries))

\* the query with its tracking parameters left in
KeptQueryAll(search) == JoinAmp(SearchParams(search))

\* kept.toString(): the entries that are not tracking parameters, in source order
KeptQuery(search) ==
    JoinAmp(SelectSeq(SearchParams(search),
                      LAMBDA e : ~IsUtm(ParamKey(e)) /\ ~IsFbclid(ParamKey(e))))

\* host.replace(/^www\./, "")
StripWww(host) == IF host # <<>> /\ Head(host) = "www." THEN Tail(host) ELSE host

\* path without its trailing slash, the root exempted
StripSlash(path) ==
    IF Len(path) > 1 /\ path[Len(path)] = "/" THEN SubSeq(path, 1, Len(path) - 1) ELSE path

NoKey == [key |-> <<>>, host |-> <<>>]

normalizeKey(rawUrl) ==
    LET u == ParseUrl(stripTrailingPunct(rawUrl))
    IN  IF ~u.ok THEN NoKey
        ELSE LET host == StripWww(u.hostname)
                 query == KeptQuery(u.search)
                 path == StripSlash(u.pathname)
             IN  [key |-> host \o path \o (IF query # <<>> THEN <<"?">> \o query ELSE <<>>),
                  host |-> host]

\* host labels that end with a dot (a subdomain prefix)
DotLabels == {"www.", "shop."}

ApexDomain == "spanmor.com.au"

\* the test without the dot: host.endsWith("spanmor.com.au")
AllowedHostSuffix(host) == host # <<>> /\ host[Len(host)] = ApexDomain

\* host === "spanmor.com.au" || host.endsWith(".spanmor.com.au")
AllowedHost(host) ==
    \/ host = <<ApexDomain>>
    \/ /\ Len(host) >= 2
       /\ host[Len(host)] = ApexDomain
       /\ host[Len(host) - 1] \in DotLabels

\* the heuristic without the host test: query or deep path on any host
ImportantBareAnyHost(it) ==
    LET u == ParseUrl(stripTrailingPunct(it.url))
    IN  /\ u.ok
        /\ (u.search # <<>> \/ PathDepth(u.pathname) > 1)

\* a bare URL that joins the Markdown links: allowed host and (query or deep path)
ImportantBare(it) ==
    LET u == ParseUrl(stripTrailingPunct(it.url))
    IN  /\ u.ok
        /\ AllowedHost(u.hostname)
        /\ (u.search # <<>> \/ PathDepth(u.pathname) > 1)

RawItem(m) == [url |-> m.url, label |-> m.label]

RawItems(ms) == [i \in 1..Len(ms) |-> RawItem(ms[i])]

\* the candidate list "raw": Markdown links first, then the bare URLs that qualify
Candidates(s) ==
    LET mdLinksRaw == [i \in 1..Len(MdScan(s, 1)) |->
                          [url |-> MdScan(s, 1)[i].url, label |-> Trim(MdScan(s, 1)[i].label)]]
        bareLinksRaw == RawItems(BareScan(s, 1))
    IN  IF mdLinksRaw # <<>>
        THEN mdLinksRaw \o SelectSeq(bareLinksRaw, ImportantBare)
        ELSE bareLinksRaw

\* the loop without the seen-set test: duplicates of a key are kept
RECURSIVE DedupKeepsDuplicates(_, _)
DedupKeepsDuplicates(raw, seen) ==
    IF raw = <<>> THEN <<>>
    ELSE LET it == Head(raw)
             cleanedUrl == stripTrailingPunct(it.url)
             nk == normalizeKey(cleanedUrl)
         IN  IF nk.key = <<>> \/ nk.host = <<>> THEN DedupKeepsDuplicates(Tail(raw), seen)
             ELSE IF ~AllowedHost(nk.host) THEN DedupKeepsDuplicates(Tail(raw), seen)
             ELSE <<[url |-> cleanedUrl, label |-> it.label]>>
                  \o DedupKeepsDuplicates(Tail(raw), seen \cup {nk.key})

\* the loop over raw: allow-list and de-duplication by canonical key
RECURSIVE Dedup(_, _)
Dedup(raw, seen) ==
    IF raw = <<>> THEN <<>>
    ELSE LET it == Head(raw)
             cleanedUrl == stripTrailingPunct(it.url)
             nk == normalizeKey(cleanedUrl)
         IN  IF nk.key = <<>> \/ nk.host = <<>> THEN Dedup(Tail(raw), seen)
             ELSE IF ~AllowedHost(nk.host) THEN Dedup(Tail(raw), seen)
             ELSE IF nk.key \in seen THEN Dedup(Tail(raw), seen)
             ELSE <<[url |-> cleanedUrl, label |-> it.label]>>
                  \o Dedup(Tail(raw), seen \cup {nk.key})

extractLinks(fullText) == Dedup(Candidates(fullText), {})

(***************************************************************************)
(* The typing display (sanitizeTypingDisplay), in the notation of the link *)
(* extractor.                                                              *)
(***************************************************************************)
\* s.replace(mdComplete, "$1") from position `from` on: each link becomes its label
RECURSIVE ReplaceMdComplete(_, _)
ReplaceMdComplete(s, from) ==
    LET starts == {p \in from..Len(s) : MdMatchAt(s, p).ok}
    IN  IF starts = {} THEN SubSeq(s, from, Len(s))
        ELSE LET p == CHOOSE x \in starts : \A y \in starts : x <= y
                 m == MdMatchAt(s, p)
             IN  SubSeq(s, from, p - 1) \o m.label \o ReplaceMdComplete(s, m.end + 1)

\* the bare URLs left in
KeepBareUrl(s, from) == SubSeq(s, from, Len(s))

\* s.replace(bareUrl, "") from position `from` on
RECURSIVE RemoveBareUrl(_, _)
RemoveBareUrl(s, from) ==
    LET starts == {p \in from..Len(s) : BareMatchAt(s, p).ok}
    IN  IF starts = {} THEN SubSeq(s, from, Len(s))
        ELSE LET p == CHOOSE x \in starts : \A y \in starts : x <= y
                 m == BareMatchAt(s, p)
             IN  SubSeq(s, from, p - 1) \o RemoveBareUrl(s, m.end + 1)

\* /\[([^\]]+)\]\([^)]*$/ anchored at position p
MdPartialAt(s, p) ==
    IF p > Len(s) \/ s[p] # "[" THEN NoMatch
    ELSE LET q == FirstIn(s, p + 1, {"]"})
         IN  IF q = 0 \/ q = p + 1 \/ q + 1 > Len(s) THEN NoMatch
             ELSE IF s[q + 1] # "(" \/ FirstIn(s, q + 2, {")"}) # 0 THEN NoMatch
             ELSE [ok |-> TRUE, start |-> p, end |-> Len(s),
                   label |-> SubSeq(s, p + 1, q - 1)]

\* guard++ < 10
CollapseGuard == 10

\* while (mdPartial.test(s) && guard++ < 10) s = s.replace(mdPartial, "$1")
RECURSIVE CollapsePartial(_, _)
CollapsePartial(s, guard) ==
    LET starts == {p \in 1..Len(s) : MdPartialAt(s, p).ok}
    IN  IF starts = {} \/ guard >= CollapseGuard THEN s
        ELSE LET p == CHOOSE x \in starts : \A y \in starts : x <= y
             IN  CollapsePartial(SubSeq(s, 1, p - 1) \o MdPartialAt(s, p).label, guard + 1)

\* what lines.map does with one line
SanitizeLine(line) ==
    CollapsePartial(RemoveBareUrl(ReplaceMdComplete(line, 1), 1), 0)

\* out.join("\n")
RECURSIVE JoinLines(_)
JoinLines(lines) ==
    IF Len(lines) = 1 THEN Head(lines)
    ELSE Head(lines) \o <<"\n">> \o JoinLines(Tail(lines))

sanitizeTypingDisplay(t) ==
    JoinLines([i \in 1..Len(Split(t, "\n")) |-> SanitizeLine(Split(t, "\n")[i])])

(***************************************************************************)
(* renderMessageWithLinks: the text content of the fragments it returns;   *)
(* the <br /> between two lines is written "\n" (the message is shown with *)
(* white-space: pre-wrap, where "\n" breaks the line as well).             *)
(***************************************************************************)
\* while (partialMd.test(displayLine)) displayLine = displayLine.replace(partialMd, "$1")
RECURSIVE CollapseAll(_)
CollapseAll(s) ==
    LET starts == {p \in 1..Len(s) : MdPartialAt(s, p).ok}
    IN  IF starts = {} THEN s
        ELSE LET p == CHOOSE x \in starts : \A y \in starts : x <= y
             IN  CollapseAll(SubSeq(s, 1, p - 1) \o MdPartialAt(s, p).label)

\* the loop over pattern = mdLink|bareUrl: the text between the matches is pushed,
\* a Markdown link pushes its label, a bare URL pushes nothing
RECURSIVE RenderParts(_, _)
RenderParts(s, from) ==
    LET starts == {p \in from..Len(s) : MdMatchAt(s, p).ok \/ BareMatchAt(s, p).ok}
    IN  IF starts = {} THEN SubSeq(s, from, Len(s))
        ELSE LET p == CHOOSE x \in starts : \A y \in starts : x <= y
                 md == MdMatchAt(s, p)
                 m == IF md.ok THEN md ELSE BareMatchAt(s, p)
             IN  SubSeq(s, from, p - 1)
                    \o (IF md.ok THEN md.label ELSE <<>>)
                    \o RenderParts(s, m.end + 1)

RenderLine(line, isTyping) ==
    RenderParts(IF isTyping THEN CollapseAll(line) ELSE line, 1)

renderMessageWithLinks(t, isTyping) ==
    JoinLines([i \in 1..Len(Split(t, "\n")) |-> RenderLine(Split(t, "\n")[i], isTyping)])

(***************************************************************************)
(* The proxy route and the shape of a response.                            *)
(*                                                                         *)
(* A body is modelled by what JSON.parse makes of it: an object with or    *)
(* without an `output` field, an array whose first element is such an      *)
(* object, an empty array, or text that does not parse.                    *)
(***************************************************************************)
\* a reply that is a bare URL of the site, with white space around it
LinkReply == <<" ", "https://", "spanmor.com.au", "\n">>

\* the texts a webhook may put in `output`
Outputs == {<<>>, <<" ">>, <<"o", "k">>, LinkReply}

Bodies ==
    [kind : {"obj", "arr"}, hasOutput : {TRUE}, output : Outputs]
    \cup [kind : {"obj", "arr", "emptyarr", "text"}, hasOutput : {FALSE}, output : {<<>>}]

\* { error: "..." }: an object without `output`
ErrorBody == [kind |-> "obj", hasOutput |-> FALSE, output |-> <<>>]

\* JSON.parse(text) succeeds
Parses(body) == body.kind # "text"

\* a body of no characters
EmptyText == [kind |-> "text", hasOutput |-> FALSE, output |-> <<>>]

\* the statuses for which the Response constructor takes no body, not even ""
NullBodyStatus == {204}

\* what the upstream webhook does with one request: the fetch fails, or it answers
\* with a status, a content type that declares JSON or not, and a body; spaced
\* tells JSON text that is not written the way JSON.stringify writes it
Upstreams ==
    {up \in [throws : {FALSE}, status : {200, 500}, json : BOOLEAN, spaced : BOOLEAN,
             body : Bodies] : up.spaced => Parses(up.body)}
    \cup [throws : {FALSE}, status : NullBodyStatus, json : BOOLEAN, spaced : {FALSE},
          body : {EmptyText}]
    \cup [throws : {TRUE}, status : {0}, json : {FALSE}, spaced : {FALSE}, body : {ErrorBody}]

\* POST(req) of the route: the response it returns.  A failing fetch and a
\* Response constructor that throws both end in the catch; a body that parses under
\* a JSON content type is written anew by NextResponse.json
POST(url, up) ==
    IF ~url
    THEN [status |-> 500, body |-> ErrorBody, spaced |-> FALSE, contacted |-> FALSE]
    ELSE IF up.throws \/ up.status \in NullBodyStatus
    THEN [status |-> 502, body |-> ErrorBody, spaced |-> FALSE, contacted |-> TRUE]
    ELSE IF up.json /\ Parses(up.body)
    THEN [status |-> up.status, body |-> up.body, spaced |-> FALSE, contacted |-> TRUE]
    ELSE [status |-> up.status, body |-> up.body, spaced |-> up.spaced, contacted |-> TRUE]

\* what the widget's fetch resolves with: the status and the body res.json() reads
Received(r) == [status |-> r.status, body |-> r.body]

\* the responses the widget may receive from the route
Responses(url) == {Received(POST(url, up)) : up \in Upstreams}

NoResp == [status |-> 0, body |-> ErrorBody]

\* before the route has been called
NoRequest ==
    [throws |-> FALSE, status |-> 0, json |-> FALSE, spaced |-> FALSE, body |-> ErrorBody]

NoAnswer == [status |-> 0, body |-> ErrorBody, spaced |-> FALSE, contacted |-> FALSE]

\* the extraction without the array case: data?.output only
botReplyOfObjectOnly(resp) ==
    IF resp.body.kind = "obj" /\ resp.body.hasOutput
    THEN [defined |-> TRUE, text |-> resp.body.output]
    ELSE [defined |-> FALSE, text |-> <<>>]

\* Array.isArray(data) ? data?.[0]?.output : data?.output, after res.json()
\* (a body that does not parse leaves data null); hasOutput FALSE is undefined
botReplyOf(resp) ==
    IF resp.body.kind \in {"obj", "arr"} /\ resp.body.hasOutput
    THEN [defined |-> TRUE, text |-> resp.body.output]
    ELSE [defined |-> FALSE, text |-> <<>>]

DefaultReply == <<"H", "i", "!">>

ApologyText == <<"S", "o", "r", "r", "y">>

WelcomeText == <<"W", "e", "l">>

\* botReply || "Hi! I'm here to help you."
ReplyOrDefault(r) == IF r.defined /\ r.text # <<>> THEN r.text ELSE DefaultReply

(***************************************************************************)
(* State of the component.                                                 *)
(***************************************************************************)
VARIABLES
    started,             \* useState(false)
    sessionId,           \* useState(""): Null or the id of the conversation
    input,               \* useState(""): the input buffer
    messages,            \* useState([]): the conversation list
    sending,             \* useState(false)
    typingTimerRef,      \* handle of the reveal interval, or Null
    typingMessageIdRef,  \* id of the message being typed, or Null
    typingFullTextRef,   \* full text of the message being typed
    timers,              \* the intervals the host will still fire, with their closures
    scrollRafRef,        \* TRUE while an animation-frame handle is stored
    rafs,                \* animation-frame callbacks the host will still run
    unmounted,           \* the cleanup of the unmount effect has run
    pending,             \* webhook requests in flight (payload chatInput)
    nextId,              \* crypto.randomUUID(): the next fresh id
    envUrl,              \* process.env.CONTACT_WEBHOOK_URL is set
    lastCall,            \* history: the event handled last and its argument
    intended,            \* history: id of a typed message -> its full text
    text,                \* link extractor: the text handed to extractLinks
    result,              \* link extractor: what extractLinks returned
    phase,               \* link extractor: "build" or "done"; display: "typing", "final"
    revealed,            \* typing display: how much of the text is revealed
    shown,               \* typing display: what sanitizeTypingDisplay shows of it
    upstream,            \* proxy route: what the upstream did with the last request
    answer               \* proxy route: the response POST returned for it

widgetVars == <<started, sessionId, input, messages, sending, typingTimerRef,
                typingMessageIdRef, typingFullTextRef, timers, scrollRafRef, rafs,
                unmounted, pending, nextId, envUrl, lastCall, intended>>

linkVars == <<text, result, phase, revealed, shown>>

proxyVars == <<upstream, answer>>

vars == <<widgetVars, linkVars, proxyVars>>

(***************************************************************************)
(* Helpers for the message list.                                           *)
(***************************************************************************)
\* addMessage(role, text): { id, role, text }, no links field
\* addMessage without an id: { role, text }
PlainMessageNoId(id, role, t) ==
    [id |-> Null, role |-> role, text |-> t, hasLinks |-> FALSE, links |-> <<>>]

PlainMessage(id, role, t) ==
    [id |-> id, role |-> role, text |-> t, hasLinks |-> FALSE, links |-> <<>>]

\* { id, role: "bot", text: "", links }
TypedMessage(id, links) ==
    [id |-> id, role |-> "bot", text |-> <<>>, hasLinks |-> TRUE, links |-> links]

\* the update aimed at the last bot message of the list, whatever its id
SetTextOfLastBot(msgs, id, t) ==
    LET bots == {i \in 1..Len(msgs) : msgs[i].role = "bot"}
    IN  IF bots = {} THEN msgs
        ELSE [msgs EXCEPT ![CHOOSE i \in bots : \A j \in bots : j <= i].text = t]

\* the update without the spread: { id, role, text }, the links lost
SetTextWithoutSpread(msgs, id, t) ==
    LET idx == FirstIn([i \in 1..Len(msgs) |-> msgs[i].id], 1, {id})
    IN  IF idx = 0 THEN msgs
        ELSE [msgs EXCEPT ![idx] = [id |-> id, role |-> msgs[idx].role, text |-> t,
                                    hasLinks |-> FALSE, links |-> <<>>]]

\* updated[idx] = { ...updated[idx], text }: every message with that id (ids are
\* unique, findIndex takes the first)
SetText(msgs, id, t) ==
    LET idx == FirstIn([i \in 1..Len(msgs) |-> msgs[i].id], 1, {id})
    IN  IF idx = 0 THEN msgs ELSE [msgs EXCEPT ![idx].text = t]

\* the catch branch showing the default reply instead of the apology
ApologyMessageDefault(id) == PlainMessage(id, "bot", DefaultReply)

\* addMessage("bot", "Sorry, there was a problem sending your message.")
ApologyMessage(id) == PlainMessage(id, "bot", ApologyText)

\* messagesRef.current: the list container exists once the chat interface is rendered
Container(isStarted, isUnmounted) == isStarted /\ ~isUnmounted

\* the effects that follow a render: [messages] scrolls to the bottom when the last
\* message is the user's (a last bot message is aligned with scrollIntoView), and
\* [sending] scrolls when sending has become true
EffectWantsScroll(msgsSet, msgs, sendingSet) ==
    \/ msgsSet /\ msgs # <<>> /\ msgs[Len(msgs)].role = "user"
    \/ sendingSet

\* the request without the pending check: every request gets its own frame
scheduleScrollUncoalesced(asked, container) ==
    IF asked /\ container
    THEN [ref |-> TRUE, rafs |-> rafs + 1]
    ELSE [ref |-> scrollRafRef, rafs |-> rafs]

\* scheduleScrollToBottom, when asked for: one frame is requested unless the
\* container is missing or a frame is already pending
scheduleScrollToBottom(asked, container) ==
    IF asked /\ container /\ ~scrollRafRef
    THEN [ref |-> TRUE, rafs |-> rafs + 1]
    ELSE [ref |-> scrollRafRef, rafs |-> rafs]

\* clearInterval(h): the host fires the interval with handle h no more
ClearInterval(ts, h) == {x \in ts : x.id # h}

\* the previous finalization forgotten: the message keeps what was revealed
PrevFinalizedSkipped(msgs, prevId, prevFull) == msgs

\* the finalization of the message that was being typed: its text becomes prevFull
PrevFinalized(msgs, prevId, prevFull) == SetText(msgs, prevId, prevFull)

\* the previous interval left running when a new message starts
PrevTimerKept(ts, h) == ts

\* the timer of the previous typing session after the "clear it" block
PrevTimerCleared(ts, h) == ClearInterval(ts, h)

\* an off-by-one reveal: the tick shows one character less
RevealedTextShort(full, i) == Slice(full, i - 1)

\* text.slice(0, i) written by a tick
RevealedText(full, i) == Slice(full, i)

\* the session ended one tick late
TickDoneLate(i, len) == i > len

\* a session that no tick ends
TickDoneNever(i, len) == FALSE

\* if (i >= len): the tick that ends the session
TickDone(i, len) == i >= len

\* the empty bubble not skipped
NothingToTypeNever(len) == FALSE

\* if (len === 0) return
NothingToType(len) == len = 0

(***************************************************************************)
(* typeOutBotMessage(fullText), as a function of the state it reads: the   *)
(* values of messages, the three refs and the timers after the call.  id   *)
(* is the crypto.randomUUID() it draws when it creates a message.          *)
(***************************************************************************)
\* the empty check placed before the "clear it" block: an empty text returns at once
typeOutBotMessageEarlyReturn(fullText, id) ==
    LET t == Trim(fullText)
        active == typingTimerRef # Null
        prevId == typingMessageIdRef
        prevFull == typingFullTextRef
        msgs1 == IF active /\ prevId # Null
                 THEN PrevFinalized(messages, prevId, prevFull)
                 ELSE messages
        timers1 == IF active THEN PrevTimerCleared(timers, typingTimerRef) ELSE timers
    IN  IF Len(t) = 0
        THEN [messages |-> messages, timerRef |-> typingTimerRef,
              idRef |-> typingMessageIdRef, fullRef |-> typingFullTextRef,
              timers |-> timers, used |-> 0, intended |-> intended, msgsSet |-> FALSE]
        ELSE [messages |-> Append(msgs1, TypedMessage(id, extractLinks(t))),
              timerRef |-> id, idRef |-> id, fullRef |-> t,
              timers |-> timers1 \cup {[id |-> id, text |-> t, i |-> 0]},
              used |-> 1, intended |-> intended @@ (id :> t),
              msgsSet |-> TRUE]

typeOutBotMessage(fullText, id) ==
    LET t == Trim(fullText)
        \* a previous timer is active: finalize its message, clear the timer
        active == typingTimerRef # Null
        prevId == typingMessageIdRef
        prevFull == typingFullTextRef
        msgs1 == IF active /\ prevId # Null
                 THEN PrevFinalized(messages, prevId, prevFull)
                 ELSE messages
        timers1 == IF active THEN PrevTimerCleared(timers, typingTimerRef) ELSE timers
    IN  IF NothingToType(Len(t))
        THEN [messages |-> msgs1, timerRef |-> Null, idRef |-> Null, fullRef |-> <<>>,
              timers |-> timers1, used |-> 0, intended |-> intended,
              msgsSet |-> active /\ prevId # Null]
        ELSE [messages |-> Append(msgs1, TypedMessage(id, extractLinks(t))),
              timerRef |-> id, idRef |-> id, fullRef |-> t,
              timers |-> timers1 \cup {[id |-> id, text |-> t, i |-> 0]},
              used |-> 1, intended |-> intended @@ (id :> t),
              msgsSet |-> TRUE]

(***************************************************************************)
(* Inputs.                                                                 *)
(***************************************************************************)
\* values the user may leave in the textarea
InputValues == {<<>>, <<"?">>, <<" ", "h", "i", ".">>}

\* the quick-reply buttons (sendText is never passed)
QuickTexts == {<<"q", "1">>, <<"q", "2">>}

Event(op, arg, resp) == [op |-> op, arg |-> arg, resp |-> resp]

Init ==
    /\ started = FALSE
    /\ sessionId = Null
    /\ input = <<>>
    /\ messages = <<>>
    /\ sending = FALSE
    /\ typingTimerRef = Null
    /\ typingMessageIdRef = Null
    /\ typingFullTextRef = <<>>
    /\ timers = {}
    /\ scrollRafRef = FALSE
    /\ rafs = 0
    /\ unmounted = FALSE
    /\ pending = <<>>
    /\ nextId = 1
    /\ envUrl \in BOOLEAN
    /\ lastCall = Event("init", <<>>, NoResp)
    /\ intended = <<>>
    /\ text = <<>>
    /\ result = <<>>
    /\ phase = "build"
    /\ revealed = 0
    /\ shown = <<>>
    /\ upstream = NoRequest
    /\ answer = NoAnswer

\* the state after a call of typeOutBotMessage that returned r
TypeOutApplied(r) ==
    /\ messages' = r.messages
    /\ typingTimerRef' = r.timerRef
    /\ typingMessageIdRef' = r.idRef
    /\ typingFullTextRef' = r.fullRef
    /\ timers' = r.timers
    /\ intended' = r.intended

\* the frame request of the effects that run after the handler's render
EffectsApplied(msgsSet, sendingSet, isStarted) ==
    LET sc == scheduleScrollToBottom(
                  ~unmounted /\ EffectWantsScroll(msgsSet, messages', sendingSet),
                  Container(isStarted, unmounted))
    IN  /\ scrollRafRef' = sc.ref
        /\ rafs' = sc.rafs

(***************************************************************************)
(* startNewConversation: the "Send us a message" button of the welcome     *)
(* view, which is rendered only while not started.                         *)
(***************************************************************************)
StartNewConversation ==
    /\ ~unmounted
    /\ ~started
    /\ LET id == nextId
           r == typeOutBotMessage(WelcomeText, nextId + 1)
       IN  /\ sessionId' = id
           /\ started' = TRUE
           /\ sending' = FALSE
           /\ TypeOutApplied(r)
           /\ nextId' = nextId + 1 + r.used
           /\ EffectsApplied(r.msgsSet, FALSE, TRUE)
    /\ lastCall' = Event("startNewConversation", <<>>, NoResp)
    /\ UNCHANGED <<input, unmounted, pending, envUrl, linkVars, proxyVars>>

\* onChange of the textarea (rendered in the chat interface)
SetInput(v) ==
    /\ ~unmounted
    /\ started
    /\ v # input
    /\ input' = v
    /\ lastCall' = Event("setInput", v, NoResp)
    /\ UNCHANGED <<started, sessionId, messages, sending, typingTimerRef,
                   typingMessageIdRef, typingFullTextRef, timers, scrollRafRef, rafs,
                   unmounted, pending, nextId, envUrl, intended, linkVars, proxyVars>>

\* the guard without the sending flag
SendRefusedNoSendingCheck(message) == message = <<>> \/ sessionId = Null

\* the guard without the session check
SendRefusedNoSessionCheck(message) == message = <<>> \/ sending

\* if (!message || !sessionId || sending) return;
SendRefused(message) == message = <<>> \/ sessionId = Null \/ sending

\* the payload without the session id
PayloadWithoutSession(sid, message) == [sessionId |-> Null, chatInput |-> message]

\* the body of the request: { action, sessionId, route, chatInput, metadata }, of
\* which action, route and metadata are the same in every request
Payload(sid, message) == [sessionId |-> sid, chatInput |-> message]

\* the part sendMessage and sendQuickMessage share once the guard has passed:
\* addMessage("user", display), setSending(true), fetch
SendAccepted(display, message) ==
    /\ Len(messages) + 2 <= MaxMsgs
    /\ messages' = Append(messages, PlainMessage(nextId, "user", display))
    /\ nextId' = nextId + 1
    /\ sending' = TRUE
    /\ pending' = Append(pending, Payload(sessionId, message))
    /\ EffectsApplied(TRUE, TRUE, started)

SendMessage ==
    /\ ~unmounted
    /\ LET display == Trim(input)
           message == normalizeInput(input)
       IN  IF SendRefused(message)
           THEN UNCHANGED <<messages, nextId, sending, pending, scrollRafRef, rafs, input>>
           ELSE /\ SendAccepted(display, message)
                /\ input' = <<>>
    /\ lastCall' = Event("sendMessage", input, NoResp)
    /\ UNCHANGED <<started, sessionId, typingTimerRef, typingMessageIdRef,
                   typingFullTextRef, timers, unmounted, envUrl, intended, linkVars,
                   proxyVars>>

SendQuickMessage(quickText) ==
    /\ ~unmounted
    /\ LET display == Trim(quickText)
           message == normalizeInput(quickText)
       IN  IF SendRefused(message)
           THEN UNCHANGED <<messages, nextId, sending, pending, scrollRafRef, rafs>>
           ELSE SendAccepted(display, message)
    /\ lastCall' = Event("sendQuickMessage", quickText, NoResp)
    /\ UNCHANGED <<started, sessionId, input, typingTimerRef, typingMessageIdRef,
                   typingFullTextRef, timers, unmounted, envUrl, intended, linkVars,
                   proxyVars>>

\* the flag left as it is when the request has settled
SendingKept(flag) == flag

\* setSending(false), in the try and in the catch branch
SendingCleared(flag) == FALSE

Without(seq, i) == SubSeq(seq, 1, i - 1) \o SubSeq(seq, i + 1, Len(seq))

\* the fetch of request k resolves with what the route answers
Settle(k, resp) ==
    /\ k \in 1..Len(pending)
    /\ LET r == typeOutBotMessage(ReplyOrDefault(botReplyOf(resp)), nextId)
       IN  /\ sending' = SendingCleared(sending)
           /\ TypeOutApplied(r)
           /\ nextId' = nextId + r.used
           /\ EffectsApplied(r.msgsSet, FALSE, started)
           /\ lastCall' = Event("settle", <<>>, resp)
    /\ pending' = Without(pending, k)
    /\ UNCHANGED <<started, sessionId, input, unmounted, envUrl, linkVars, proxyVars>>

\* the fetch of request k rejects: the catch branch
Reject(k) ==
    /\ k \in 1..Len(pending)
    /\ sending' = SendingCleared(sending)
    /\ messages' = Append(messages, ApologyMessage(nextId))
    /\ nextId' = nextId + 1
    /\ EffectsApplied(TRUE, FALSE, started)
    /\ pending' = Without(pending, k)
    /\ lastCall' = Event("reject", <<>>, NoResp)
    /\ UNCHANGED <<started, sessionId, input, typingTimerRef, typingMessageIdRef,
                   typingFullTextRef, timers, unmounted, envUrl, intended, linkVars,
                   proxyVars>>

\* one firing of the interval t: the callback passed to setInterval
Tick(t) ==
    /\ t \in timers
    /\ t.i <= Len(t.text)
    /\ LET i == t.i + 1
           fired == [t EXCEPT !.i = i]
           running == (timers \ {t}) \cup {fired}
           sc == scheduleScrollToBottom(TRUE, Container(started, unmounted))
           sc2 == IF ~unmounted /\ ~sc.ref
                     /\ EffectWantsScroll(TRUE, messages', FALSE)
                     /\ Container(started, unmounted)
                  THEN [ref |-> TRUE, rafs |-> sc.rafs + 1] ELSE sc
       IN  /\ messages' = SetText(messages, t.id, RevealedText(t.text, i))
           /\ scrollRafRef' = sc2.ref
           /\ rafs' = sc2.rafs
           /\ IF TickDone(i, Len(t.text))
              THEN \* clearInterval(typingTimerRef.current)
                   /\ timers' = ClearInterval(running, typingTimerRef)
                   /\ typingTimerRef' = Null
                   /\ typingMessageIdRef' = Null
              ELSE /\ timers' = running
                   /\ UNCHANGED <<typingTimerRef, typingMessageIdRef>>
    /\ lastCall' = Event("tick", <<>>, NoResp)
    /\ UNCHANGED <<started, sessionId, input, sending, typingFullTextRef, unmounted,
                   pending, nextId, envUrl, intended, linkVars, proxyVars>>

\* the animation-frame callback of scheduleScrollToBottom runs
RafFire ==
    /\ rafs > 0
    /\ rafs' = rafs - 1
    /\ scrollRafRef' = FALSE
    /\ lastCall' = Event("raf", <<>>, NoResp)
    /\ UNCHANGED <<started, sessionId, input, messages, sending, typingTimerRef,
                   typingMessageIdRef, typingFullTextRef, timers, unmounted, pending,
                   nextId, envUrl, intended, linkVars, proxyVars>>

\* the cleanup of the unmount effect
Unmount ==
    /\ ~unmounted
    /\ unmounted' = TRUE
    /\ IF typingTimerRef # Null
       THEN /\ timers' = ClearInterval(timers, typingTimerRef)
            /\ typingTimerRef' = Null
       ELSE UNCHANGED <<timers, typingTimerRef>>
    /\ IF scrollRafRef
       THEN /\ rafs' = rafs - 1
            /\ scrollRafRef' = FALSE
       ELSE UNCHANGED <<rafs, scrollRafRef>>
    /\ lastCall' = Event("unmount", <<>>, NoResp)
    /\ UNCHANGED <<started, sessionId, input, messages, sending, typingMessageIdRef,
                   typingFullTextRef, pending, nextId, envUrl, intended, linkVars, proxyVars>>

Next ==
    \/ StartNewConversation
    \/ \E v \in InputValues : SetInput(v)
    \/ SendMessage
    \/ \E q \in QuickTexts : SendQuickMessage(q)
    \/ \E k \in 1..MaxMsgs, resp \in Responses(envUrl) : Settle(k, resp)
    \/ \E k \in 1..MaxMsgs : Reject(k)
    \/ \E t \in timers : Tick(t)
    \/ RafFire
    \/ Unmount

Spec == Init /\ [][Next]_vars

\* setInterval keeps firing its callback until the interval is cleared: a reveal
\* timer that stays installed is not ignored forever by the host
FairSpec == Spec /\ WF_vars(\E t \in timers : Tick(t))

(***************************************************************************)
(* The link extractor on its own: a text is built item by item from        *)
(* Markdown links, bare URLs and plain words, then handed to extractLinks. *)
(***************************************************************************)
UrlDocs == <<"https://", "spanmor.com.au", "/", "docs">>

UrlDocsWww == <<"https://", "WWW.", "spanmor.com.au", "/", "docs", "/">>

UrlDeep == <<"https://", "spanmor.com.au", "/", "a", "/", "b">>

UrlOther == <<"https://", "example.com", "/", "page">>

UrlContact == <<"http://", "spanmor.com.au", "/", "contact", "?", "utm_source=fb", "&", "ref=1">>

UrlDocsUtm == <<"https://", "spanmor.com.au", "/", "docs", "?", "utm_source=fb">>

Urls == {UrlDocs, UrlDocsWww, UrlDocsUtm, UrlDeep, UrlOther, UrlContact}

MdLink(label, url) == <<"[">> \o label \o <<"]", "(">> \o url \o <<")">>

Items ==
    {MdLink(<<"Docs">>, u) : u \in Urls} \cup Urls \cup {<<"see">>}

\* what follows an item
Separators == {<<" ">>, <<".", " ">>}

InitLinks ==
    /\ Init
    /\ envUrl = TRUE

AppendItem(it, sep) ==
    /\ phase = "build"
    /\ Len(SelectSeq(text, LAMBDA c : c = " ")) < MaxItems
    /\ text' = text \o it \o sep
    /\ UNCHANGED <<result, phase, revealed, shown, widgetVars, proxyVars>>

Extract ==
    /\ phase = "build"
    /\ result' = extractLinks(text)
    /\ phase' = "done"
    /\ UNCHANGED <<text, revealed, shown, widgetVars, proxyVars>>

NextLinks ==
    \/ \E it \in Items, sep \in Separators : AppendItem(it, sep)
    \/ Extract

SpecLinks == InitLinks /\ [][NextLinks]_vars

(***************************************************************************)
(* The canonical key on its own: a text made of one or two links, each a   *)
(* spelling of a page, is handed to extractLinks.                          *)
(***************************************************************************)
DocsLowerWww == <<"https://", "www.", "spanmor.com.au", "/", "docs">>

DocsUpperHost == <<"https://", "SPANMOR.COM.AU", "/", "docs">>

DocsSlash == <<"https://", "spanmor.com.au", "/", "docs", "/">>

DocsFbclid == <<"https://", "spanmor.com.au", "/", "docs", "?", "fbclid=x">>

\* spellings of /docs: host case, "www.", trailing slash, tracking parameters
DocsSpellings ==
    {UrlDocs, DocsLowerWww, DocsUpperHost, DocsSlash, UrlDocsUtm, DocsFbclid, UrlDocsWww}

ContactPlain == <<"https://", "spanmor.com.au", "/", "contact">>

ContactRef == <<"https://", "spanmor.com.au", "/", "contact", "?", "ref=1">>

ContactUtmRef ==
    <<"https://", "spanmor.com.au", "/", "contact", "?", "utm_source=fb", "&", "ref=1">>

ContactRefFbclid ==
    <<"https://", "spanmor.com.au", "/", "contact", "?", "ref=1", "&", "FBCLID=x">>

ContactUtmUpperRef ==
    <<"https://", "spanmor.com.au", "/", "contact", "?", "UTM_medium=x", "&", "ref=1">>

\* spellings of /contact?ref=1: tracking parameters around the kept one
ContactRefSpellings == {ContactRef, ContactUtmRef, ContactRefFbclid, ContactUtmUpperRef}

ContactBRef == <<"https://", "spanmor.com.au", "/", "contact", "?", "b=2", "&", "ref=1">>

ContactRefB == <<"https://", "spanmor.com.au", "/", "contact", "?", "ref=1", "&", "b=2">>

\* the same two parameters in both orders
ParamOrderSpellings == {ContactBRef, ContactRefB}

\* evilspanmor.com.au: ends with the apex, is no subdomain of it
EvilDocs == <<"https://", "evil", "spanmor.com.au", "/", "docs">>

ShopDocs == <<"https://", "shop.", "spanmor.com.au", "/", "docs">>

\* a path of two segments on a host outside the allow-list
OtherDeep == <<"https://", "example.com", "/", "a", "/", "b">>

KeyUrls ==
    DocsSpellings \cup ContactRefSpellings \cup ParamOrderSpellings
       \cup {ContactPlain, EvilDocs, ShopDocs, UrlOther, UrlDeep, OtherDeep}

KeyItems == {MdLink(<<"Docs">>, u) : u \in KeyUrls} \cup KeyUrls

Compose(a, b) ==
    /\ phase = "build"
    /\ text = <<>>
    /\ text' = a \o <<" ">> \o b
    /\ UNCHANGED <<result, phase, revealed, shown, widgetVars, proxyVars>>

NextKeys ==
    \/ \E a \in KeyItems, b \in KeyItems \cup {<<>>} : Compose(a, b)
    \/ Extract

SpecKeys == InitLinks /\ [][NextKeys]_vars

(***************************************************************************)
(* The typing display on its own: a reply is put together from parts, then *)
(* revealed from the left, the display showing each prefix through         *)
(* sanitizeTypingDisplay.  One step reveals one lexical unit, the last of  *)
(* the ticks that reveal its characters.                                   *)
(***************************************************************************)
\* a link whose label holds a link
NestedLink ==
    <<"[">> \o MdLink(<<"a">>, UrlDocs) \o <<"]", "(">> \o UrlDocs \o <<")">>

\* the start of a link that is never closed
OpenLink == <<"[", "a", "]", "(">>

\* a link labelled with its own address
UrlLabelLink == MdLink(UrlDocs, UrlDocs)

ReplyParts ==
    {<<"see">>, MdLink(<<"Docs">>, UrlDocs), UrlDocs, NestedLink, OpenLink, UrlLabelLink}

PartEnds == {<<" ">>, <<"\n">>}

AppendPart(part, end) ==
    /\ phase = "build"
    /\ Len(SelectSeq(text, LAMBDA c : c \in {" ", "\n"})) < MaxItems
    /\ text' = text \o part \o end
    /\ UNCHANGED <<result, phase, revealed, shown, widgetVars, proxyVars>>

\* the reply is handed to the typewriter: nothing is revealed yet
BeginTyping ==
    /\ phase = "build"
    /\ phase' = "typing"
    /\ revealed' = 0
    /\ shown' = sanitizeTypingDisplay(<<>>)
    /\ UNCHANGED <<text, result, widgetVars, proxyVars>>

\* one more unit is revealed and rendered as a typing message
Reveal ==
    /\ phase = "typing"
    /\ revealed < Len(text)
    /\ revealed' = revealed + 1
    /\ shown' = sanitizeTypingDisplay(Slice(text, revealed'))
    /\ UNCHANGED <<text, result, phase, widgetVars, proxyVars>>

\* typing has ended: the message is no typing message any more and is rendered
\* by renderMessageWithLinks(m.text, { isTyping: false })
Finalize ==
    /\ phase = "typing"
    /\ revealed = Len(text)
    /\ phase' = "final"
    /\ shown' = renderMessageWithLinks(text, FALSE)
    /\ UNCHANGED <<text, result, revealed, widgetVars, proxyVars>>

NextTyping ==
    \/ \E part \in ReplyParts, end \in PartEnds : AppendPart(part, end)
    \/ BeginTyping
    \/ Reveal
    \/ Finalize

SpecTyping == InitLinks /\ [][NextTyping]_vars

(***************************************************************************)
(* The proxy route on its own: one request after the other is answered.    *)
(***************************************************************************)
Request(up) ==
    /\ upstream' = up
    /\ answer' = POST(envUrl, up)
    /\ UNCHANGED <<widgetVars, linkVars>>

NextProxy == \E up \in Upstreams : Request(up)

SpecProxy == Init /\ [][NextProxy]_vars

(***************************************************************************)
(* Properties of the typewriter.                                           *)
(***************************************************************************)
\* isTypingMsg of the render: the message the active session is typing
IsTypingMsg(m) == typingTimerRef # Null /\ m.id = typingMessageIdRef

\* the buttons shown for every bot message that has links
CtaDisplayedAlways(m) == m.role = "bot" /\ m.hasLinks /\ Len(m.links) > 0

\* the condition under which the render builds the call-to-action of a message
CtaDisplayed(m) ==
    m.role = "bot" /\ m.hasLinks /\ Len(m.links) > 0 /\ ~IsTypingMsg(m)

TypingMessages == {i \in 1..Len(messages) : IsTypingMsg(messages[i])}

\* the text of the message with the given id
TextOf(msgs, id) ==
    LET idx == FirstIn([i \in 1..Len(msgs) |-> msgs[i].id], 1, {id})
    IN  msgs[idx].text

TypedIds == DOMAIN intended

\* the reply a settled response hands to the typewriter is not blank
TypesSomething(resp) == Trim(ReplyOrDefault(botReplyOf(resp))) # <<>>

\* C1: in every reachable state at most one reveal timer is running and at most
\* one bot message is in the Typing state.
C1_AtMostOneTypingSession ==
    /\ Cardinality(timers) <= 1
    /\ Cardinality(TypingMessages) <= 1
    /\ \A t \in timers : t.id = typingTimerRef

\* a reply started typing while the welcome message was still being revealed, and
\* a single session is active
C1_Witness ==
    /\ lastCall.op = "settle"
    /\ Cardinality(timers) = 1
    /\ Cardinality(TypingMessages) = 1
    /\ Cardinality(TypedIds) >= 2
    /\ \E i \in 1..Len(messages) : IsTypingMsg(messages[i]) /\ i > 1

\* C2: when typeOutBotMessage is invoked with a non-empty text while a session is
\* active, the earlier target's text becomes its intended full text, exactly the
\* new session is active afterwards, and a message that shows its full text is
\* never shortened by a later step.
C2_SingleFlightFinalizes ==
    [][ /\ (lastCall'.op = "settle" /\ typingTimerRef # Null
              /\ TypesSomething(lastCall'.resp))
           => /\ TextOf(messages', typingMessageIdRef) = intended[typingMessageIdRef]
              /\ Cardinality(timers') = 1
              /\ typingTimerRef' # Null
              /\ typingTimerRef' # typingTimerRef
              /\ \A t \in timers' : t.id = typingTimerRef' /\ t.i = 0
              /\ typingMessageIdRef' # typingMessageIdRef
        /\ \A id \in TypedIds :
              TextOf(messages, id) = intended[id] => TextOf(messages', id) = intended[id]
      ]_vars

\* the reply superseded a message of which only a proper prefix was revealed
C2_Witness ==
    /\ lastCall.op = "settle"
    /\ typingTimerRef # Null
    /\ \E id \in TypedIds :
          /\ id # typingMessageIdRef
          /\ TextOf(messages, id) = intended[id]
          /\ Len(intended[id]) >= 2
          /\ \E t \in timers : t.id # id /\ t.i = 0
    /\ TextOf(messages, typingMessageIdRef) = <<>>

Min(a, b) == IF a < b THEN a ELSE b

\* C3: under an active session the target's text is the prefix of the full text of
\* length min(revealedCount, length(fullText)), its length never decreases across
\* a tick, and the session stops exactly at the tick where revealedCount reaches
\* the length of the full text.
C3_TypewriterMonotone ==
    [][ /\ \A t \in timers' :
              /\ TextOf(messages', t.id) = SubSeq(t.text, 1, Min(t.i, Len(t.text)))
              /\ Len(TextOf(messages', t.id)) = Min(t.i, Len(t.text))
              /\ t.i < Len(t.text)
        /\ lastCall'.op = "tick" =>
              \A t \in timers :
                 /\ Len(TextOf(messages', t.id)) >= Len(TextOf(messages, t.id))
                 /\ (\A u \in timers' : u.id # t.id)
                       => /\ t.i + 1 = Len(t.text)
                          /\ TextOf(messages', t.id) = t.text
      ]_vars

\* a tick in the middle of a reveal: some but not all characters are shown
C3_Witness ==
    /\ lastCall.op = "tick"
    /\ \E t \in timers :
          /\ t.i >= 2
          /\ t.i < Len(t.text)
          /\ TextOf(messages, t.id) = SubSeq(t.text, 1, t.i)

(***************************************************************************)
(* Properties of sending.                                                  *)
(***************************************************************************)
UserCount(msgs) == Len(SelectSeq(msgs, LAMBDA m : m.role = "user"))

SendOps == {"sendMessage", "sendQuickMessage"}

\* C4: sends are serialized: at most one webhook request is in flight, a request
\* is issued only when none is outstanding, and a user message is appended exactly
\* when a request is issued (one per request).
C4_SendsSerialized ==
    [][ /\ Len(pending') <= 1
        /\ Len(pending') > Len(pending)
              => /\ pending = <<>>
                 /\ ~sending
                 /\ lastCall'.op \in SendOps
                 /\ UserCount(messages') = UserCount(messages) + 1
        /\ UserCount(messages') # UserCount(messages)
              => /\ Len(pending') = Len(pending) + 1
                 /\ Len(messages') = Len(messages) + 1
      ]_vars

\* a send was invoked with a sendable text while a request was outstanding, and
\* still a single request is in flight
C4_Witness ==
    /\ lastCall.op \in SendOps
    /\ normalizeInput(lastCall.arg) # <<>>
    /\ sending
    /\ Len(pending) = 1
    /\ UserCount(messages) = 1
    /\ (lastCall.op = "sendMessage" => input = lastCall.arg)

\* C5: a send invoked with no session id, with a message that is empty after
\* normalization, or while a send is outstanding changes neither the message list,
\* the input buffer nor the sending flag and issues no request.
C5_RefusedSendIsNoOp ==
    [][ (/\ lastCall'.op \in SendOps
         /\ \/ sessionId = Null
            \/ normalizeInput(lastCall'.arg) = <<>>
            \/ sending)
        => /\ messages' = messages
           /\ input' = input
           /\ sending' = sending
           /\ pending' = pending
      ]_vars

\* a quick reply was sent before any conversation was started; nothing was listed
C5_Witness ==
    /\ lastCall.op = "sendQuickMessage"
    /\ normalizeInput(lastCall.arg) # <<>>
    /\ sessionId = Null
    /\ messages = <<>>
    /\ pending = <<>>
    /\ ~sending

\* C6: a rejected network call clears the sending flag and appends exactly one bot
\* message with the apology text; the request is gone (not re-issued), no typing
\* session is started and a running one is untouched.
C6_RejectAppendsApology ==
    [][ lastCall'.op = "reject"
        => /\ sending' = FALSE
           /\ Len(messages') = Len(messages) + 1
           /\ SubSeq(messages', 1, Len(messages)) = messages
           /\ messages'[Len(messages')].role = "bot"
           /\ messages'[Len(messages')].text = ApologyText
           /\ Len(pending') = Len(pending) - 1
           /\ timers' = timers
           /\ typingTimerRef' = typingTimerRef
           /\ typingMessageIdRef' = typingMessageIdRef
           /\ typingFullTextRef' = typingFullTextRef
           /\ intended' = intended
      ]_vars

\* a request was rejected while the welcome message was still being typed
C6_Witness ==
    /\ lastCall.op = "reject"
    /\ ~sending
    /\ pending = <<>>
    /\ messages[Len(messages)].text = ApologyText
    /\ \E t \in timers : t.i > 0 /\ t.i < Len(t.text)

\* C7: when the route answers with its fixed 500 response because the upstream URL
\* is not configured, the widget appends the apology message, as for a network
\* failure, and types no reply.
C7_MisconfiguredProxyApology ==
    [][ (lastCall'.op = "settle" /\ ~envUrl)
        => /\ lastCall'.resp.status = 500
           /\ Len(messages') = Len(messages) + 1
           /\ messages'[Len(messages')].text = ApologyText
           /\ timers' = timers
      ]_vars

\* C8: for every settled response the text handed to the typewriter is `output` of
\* the object, or of the first element of an array; when `output` is absent or
\* empty or the body does not parse, it is the default reply; no apology is added.
C8_ReplyFromOutputOrDefault ==
    [][ lastCall'.op = "settle"
        => LET body == lastCall'.resp.body
               handed == IF body.kind \in {"obj", "arr"} /\ body.hasOutput
                            /\ body.output # <<>>
                         THEN body.output ELSE DefaultReply
           IN  /\ typingFullTextRef' = Trim(handed)
               /\ \A i \in 1..Len(messages') :
                     messages'[i].text = ApologyText
                        => i <= Len(messages) /\ messages[i].text = ApologyText
               /\ Trim(handed) # <<>>
                     => /\ Len(messages') = Len(messages) + 1
                        /\ messages'[Len(messages')].id = typingMessageIdRef'
                        /\ messages'[Len(messages')].role = "bot"
                        /\ intended'[typingMessageIdRef'] = Trim(handed)
                        /\ \E t \in timers' : t.text = Trim(handed) /\ t.i = 0
      ]_vars

\* a response whose body is an array with an `output` in its first element settled
C8_Witness ==
    /\ lastCall.op = "settle"
    /\ lastCall.resp.body.kind = "arr"
    /\ lastCall.resp.body.hasOutput
    /\ lastCall.resp.body.output = <<"o", "k">>
    /\ typingFullTextRef = <<"o", "k">>
    /\ \E t \in timers : t.text = <<"o", "k">>

\* C9: after teardown no reveal-timer callback fires and no coalesced scroll runs.
C9_NoCallbackAfterTeardown ==
    [][ unmounted => lastCall'.op \notin {"tick", "raf"} ]_vars

(***************************************************************************)
(* Properties of the link extractor.                                       *)
(***************************************************************************)
\* where the string u first occurs in the text s, 0 when it does not
FirstOcc(s, u) ==
    LET at == {p \in 1..Len(s) : p + Len(u) - 1 <= Len(s) /\ SubSeq(s, p, p + Len(u) - 1) = u}
    IN  IF at = {} THEN 0 ELSE CHOOSE p \in at : \A q \in at : p <= q

SeqRange(sq) == {sq[i] : i \in 1..Len(sq)}

KeyOf(link) == normalizeKey(link.url).key

\* the Markdown links of the text that a returned link may stem from
MdSources(s, link) ==
    {m \in SeqRange(MdScan(s, 1)) : m.url = link.url /\ Trim(m.label) = link.label}

\* the bare URLs of the text that a returned link may stem from
BareSources(s, link) ==
    {m \in SeqRange(BareScan(s, 1)) : stripTrailingPunct(m.url) = link.url /\ m.label = link.label}

IsMdLink(s, link) == MdSources(s, link) # {}

\* where the source of a returned link first appears, among those of its kind
SourcePos(s, link) ==
    LET src == IF IsMdLink(s, link) THEN MdSources(s, link) ELSE BareSources(s, link)
        m == CHOOSE x \in src : \A y \in src : x.start <= y.start
    IN  m.start

\* C10 as stated: the links come in the order in which their first occurrences
\* appear in the text, and no two have the same canonical key.
C10_TextOrder ==
    phase = "done" =>
       \A i, j \in 1..Len(result) :
          i < j => /\ FirstOcc(text, result[i].url) < FirstOcc(text, result[j].url)
                   /\ KeyOf(result[i]) # KeyOf(result[j])

\* C10, amended: the links come in candidate order, the Markdown links in order of
\* appearance first and the admitted bare URLs in order of appearance after them;
\* no two have the same canonical key, and the link returned for a key is the
\* first candidate with that key.
C10_CandidateOrder ==
    phase = "done" =>
       /\ \A i, j \in 1..Len(result) :
             i < j => /\ KeyOf(result[i]) # KeyOf(result[j])
                      /\ IsMdLink(text, result[j]) => IsMdLink(text, result[i])
                      /\ IsMdLink(text, result[i]) = IsMdLink(text, result[j])
                            => SourcePos(text, result[i]) < SourcePos(text, result[j])
       /\ \A i \in 1..Len(result) :
             /\ MdSources(text, result[i]) \cup BareSources(text, result[i]) # {}
             /\ \A k \in 1..Len(Candidates(text)) :
                   normalizeKey(Candidates(text)[k].url).key = KeyOf(result[i])
                      => \E k0 \in 1..k :
                            /\ stripTrailingPunct(Candidates(text)[k0].url) = result[i].url
                            /\ Candidates(text)[k0].label = result[i].label
                            /\ \A k1 \in 1..(k0 - 1) :
                                  normalizeKey(Candidates(text)[k1].url).key # KeyOf(result[i])

\* two spellings of one page as Markdown links: the first one is returned alone
C10_Witness ==
    /\ phase = "done"
    /\ Len(MdScan(text, 1)) = 2
    /\ Len(result) = 1
    /\ result[1].url = UrlDocs
    /\ FirstOcc(text, UrlDocsWww) > FirstOcc(text, UrlDocs)

(***************************************************************************)
(* Properties of the allow-list and of the canonical key.                  *)
(***************************************************************************)
\* the canonical host of a candidate: lowercased, leading "www." stripped
CanonicalHost(c) == normalizeKey(c.url).host

\* a link with the candidate's canonical key is returned
Kept(c) == \E i \in 1..Len(result) : KeyOf(result[i]) = normalizeKey(c.url).key

\* the host string ends with the characters of the apex domain
HostEndsWithApex(host) == host # <<>> /\ host[Len(host)] = ApexDomain

\* the host is made of labels followed by the apex domain
IsSubdomain(host) ==
    /\ Len(host) >= 2
    /\ host[Len(host)] = ApexDomain
    /\ \A i \in 1..(Len(host) - 1) : host[i] \in {"www.", "shop."}

\* C11 as stated: a candidate is kept exactly when its canonical host equals the
\* apex domain or ends with it.
C11_HostEndsWithApex ==
    phase = "done" =>
       \A k \in 1..Len(Candidates(text)) :
          Kept(Candidates(text)[k])
             <=> \/ CanonicalHost(Candidates(text)[k]) = <<ApexDomain>>
                 \/ HostEndsWithApex(CanonicalHost(Candidates(text)[k]))

\* C11, amended: a candidate is kept exactly when its canonical host equals the
\* apex domain or is a subdomain of it (ends with "." followed by the apex); a
\* text whose only URL is on example.com yields the empty sequence.
C11_ApexOrSubdomain ==
    phase = "done" =>
       /\ \A k \in 1..Len(Candidates(text)) :
             Kept(Candidates(text)[k])
                <=> \/ CanonicalHost(Candidates(text)[k]) = <<ApexDomain>>
                    \/ IsSubdomain(CanonicalHost(Candidates(text)[k]))
       /\ text \in {UrlOther \o <<" ">>, MdLink(<<"Docs">>, UrlOther) \o <<" ">>}
             => result = <<>>

\* a subdomain and a host that merely ends with the apex: only the former is kept
C11_Witness ==
    /\ phase = "done"
    /\ text = MdLink(<<"Docs">>, EvilDocs) \o <<" ">> \o MdLink(<<"Docs">>, ShopDocs)
    /\ Len(Candidates(text)) = 2
    /\ result = <<[url |-> ShopDocs, label |-> <<"Docs">>]>>

\* the URL of a candidate as the loop cleans it
CleanUrl(c) == stripTrailingPunct(c.url)

\* the candidates whose URL is one of the spellings F
SpelledIn(s, F) == {k \in 1..Len(Candidates(s)) : CleanUrl(Candidates(s)[k]) \in F}

\* the first of a non-empty set of positions
First(S) == CHOOSE k \in S : \A l \in S : k <= l

\* the returned links whose URL is one of the spellings F
ReturnedIn(F) == {i \in 1..Len(result) : result[i].url \in F}

\* C12: candidates that differ only in host letter case, a leading "www.", a
\* trailing slash on a non-root path or tracking parameters (utm_*, fbclid) have
\* the same canonical key and only the first of them is returned; a non-tracking
\* parameter (ref) stays in the key and tells two links apart.
C12_VariantsShareKey ==
    phase = "done" =>
       /\ \A F \in {DocsSpellings, ContactRefSpellings} :
             SpelledIn(text, F) # {} =>
                /\ \A i, j \in SpelledIn(text, F) :
                      normalizeKey(Candidates(text)[i].url).key
                         = normalizeKey(Candidates(text)[j].url).key
                /\ Cardinality(ReturnedIn(F)) = 1
                /\ \A i \in ReturnedIn(F) :
                      result[i].url = CleanUrl(Candidates(text)[First(SpelledIn(text, F))])
       /\ \A i \in SpelledIn(text, {ContactPlain}), j \in SpelledIn(text, ContactRefSpellings) :
             /\ normalizeKey(Candidates(text)[i].url).key
                   # normalizeKey(Candidates(text)[j].url).key
             /\ ReturnedIn({ContactPlain}) # {}
             /\ ReturnedIn(ContactRefSpellings) # {}

\* two bare spellings of /contact?ref=1 that differ in their tracking parameters:
\* the first is returned alone
C12_Witness ==
    /\ phase = "done"
    /\ text = ContactRefFbclid \o <<" ">> \o ContactUtmUpperRef
    /\ Len(Candidates(text)) = 2
    /\ result = <<[url |-> ContactRefFbclid, label |-> ContactRefFbclid]>>

\* C13: candidates with the same host and path whose queries hold the same
\* non-tracking parameters in a different order have the same canonical key and
\* are collapsed to the first occurrence.
C13_ParamOrderIrrelevant ==
    phase = "done" =>
       /\ \A i, j \in SpelledIn(text, ParamOrderSpellings) :
             normalizeKey(Candidates(text)[i].url).key
                = normalizeKey(Candidates(text)[j].url).key
       /\ Cardinality(ReturnedIn(ParamOrderSpellings)) <= 1

(***************************************************************************)
(* Properties of the typing display.                                       *)
(***************************************************************************)
\* the units a URL of the replies is written with
UrlUnits == AllChars(UrlDocs)

\* no line of the text ends in an unclosed Markdown link
NoPartialLink(t) ==
    \A i \in 1..Len(Split(t, "\n")) :
       \A p \in 1..Len(Split(t, "\n")[i]) : ~MdPartialAt(Split(t, "\n")[i], p).ok

\* C14: for every prefix of a reply shown while its typing session is active, the
\* typing display holds no complete raw URL and no part of one, be it of a bare
\* URL or of the URL of a Markdown link.
C14_NoUrlWhileTyping ==
    (phase = "typing" /\ revealed < Len(text)) => AllChars(shown) \cap UrlUnits = {}

C16_UniqueIdsAppendOnly ==
    /\ [](\A i, j \in 1..Len(messages) : messages[i].id = messages[j].id => i = j)
    /\ [][ /\ Len(messages') >= Len(messages)
           /\ \A i \in 1..Len(messages) :
                 /\ messages'[i].id = messages[i].id
                 /\ messages'[i].role = messages[i].role
         ]_vars

\* a list with typed and plain messages of both roles, a typed one fully revealed
C16_Witness ==
    /\ Len(messages) >= 4
    /\ \E i, j, k \in 1..Len(messages) :
          /\ i < j /\ j < k
          /\ messages[i].id \in TypedIds
          /\ messages[i].text = intended[messages[i].id]
          /\ messages[j].role = "user"
          /\ messages[k].role = "bot"
          /\ messages[k].text = ApologyText

\* C19: typeOutBotMessage invoked with a text that is empty after trimming (a
\* whitespace-only webhook output) appends no bot message and starts no typing
\* session: afterwards no timer is running and no session marker is set.
C19_BlankReplyTypesNothing ==
    [][ (lastCall'.op = "settle" /\ ~TypesSomething(lastCall'.resp))
           => /\ Len(messages') = Len(messages)
              /\ \A i \in 1..Len(messages) : messages'[i].id = messages[i].id
              /\ timers' = {}
              /\ typingTimerRef' = Null
              /\ typingMessageIdRef' = Null
              /\ TypedIds' = TypedIds
      ]_vars

\* a whitespace-only output settled after the user's message: the list ends with
\* the user's message and nothing is being typed
C19_Witness ==
    /\ lastCall.op = "settle"
    /\ lastCall.resp.body.hasOutput
    /\ lastCall.resp.body.output = <<" ">>
    /\ Len(messages) >= 2
    /\ messages[Len(messages)].role = "user"
    /\ timers = {}
    /\ typingTimerRef = Null
    /\ typingMessageIdRef = Null

\* C20: typeOutBotMessage invoked with an empty-after-trim text while a typing
\* session is active is no pure no-op: it cancels the active timer and sets the
\* text of the active target to its full text, and the list keeps its length.
C20_BlankReplyFinalizesActive ==
    [][ (lastCall'.op = "settle" /\ ~TypesSomething(lastCall'.resp) /\ typingTimerRef # Null)
           => /\ timers' = {}
              /\ typingTimerRef' = Null
              /\ typingMessageIdRef # Null
              /\ TextOf(messages', typingMessageIdRef) = intended[typingMessageIdRef]
              /\ Len(messages') = Len(messages)
              /\ \A i \in 1..Len(messages) :
                    messages[i].id # typingMessageIdRef => messages'[i] = messages[i]
      ]_vars

\* a whitespace-only output in an array body settled: the welcome message shows
\* its full text and its session is gone
C20_Witness ==
    /\ lastCall.op = "settle"
    /\ lastCall.resp.body.kind = "arr"
    /\ lastCall.resp.body.output = <<" ">>
    /\ Cardinality(TypedIds) = 1
    /\ \A id \in TypedIds : TextOf(messages, id) = intended[id] /\ Len(intended[id]) >= 2
    /\ timers = {}
    /\ typingFullTextRef = <<>>

(***************************************************************************)
(* Properties of the proxy route.                                          *)
(***************************************************************************)
\* C17: with the upstream URL unset the route answers 500 with the error payload
\* and contacts no upstream; otherwise, for every upstream response (JSON or
\* not, parseable or not), it answers with the upstream's status and body.
C17_ProxyPassesThrough ==
    answer # NoAnswer =>
       /\ ~envUrl => /\ answer.status = 500
                     /\ answer.body = ErrorBody
                     /\ ~answer.contacted
       /\ (envUrl /\ ~upstream.throws)
             => /\ answer.contacted
                /\ answer.status = upstream.status
                /\ answer.body = upstream.body

(***************************************************************************)
(* Termination of a typing session.                                        *)
(***************************************************************************)
\* the reveal timer of the message id is installed
Typing(id) == \E t \in timers : t.id = id

\* the session of the message id is over: no timer, no marker, the full text shown
Completed(id) ==
    /\ ~Typing(id)
    /\ typingTimerRef # id
    /\ typingMessageIdRef # id
    /\ id \in TypedIds
    /\ TextOf(messages, id) = intended[id]

\* C18: with the reveal timer firing fairly, no typing session lasts forever; a
\* session that ends without teardown leaves the target showing the full trimmed
\* text, the timer stopped and the marker cleared, and if it ends by a tick rather
\* than by a new invocation, that tick is its n-th, n the length of the text.
C18_SessionTerminates ==
    /\ \A id \in 1..(MaxMsgs + 1) : []<>(~Typing(id))
    /\ [][ \A t \in timers :
              ~Typing(t.id)' =>
                 /\ lastCall'.op # "unmount" => Completed(t.id)'
                 /\ lastCall'.op = "tick" => /\ t.i + 1 = Len(t.text)
                                             /\ TextOf(messages', t.id) = Trim(t.text)
         ]_vars

\* a reply of three characters was revealed by its ticks while the component stayed
\* mounted: the last tick ended the session
C18_Witness ==
    /\ ~unmounted
    /\ lastCall.op = "tick"
    /\ timers = {}
    /\ typingTimerRef = Null
    /\ typingMessageIdRef = Null
    /\ \E id \in TypedIds :
          /\ Len(intended[id]) = 3
          /\ messages[Len(messages)].id = id
          /\ messages[Len(messages)].text = intended[id]
          /\ Len(messages) >= 3

(***************************************************************************)
(* Properties of the send flow.                                            *)
(***************************************************************************)
\* C21: after every settled outcome of a send (a reply, a body that does not
\* parse, a rejected request) the sending flag is false and the request is gone
\* without a new one being issued; a send invoked with a sendable text, a session
\* and no send outstanding is accepted.
C21_FailureDoesNotBlock ==
    [][ /\ lastCall'.op \in {"settle", "reject"}
              => /\ sending' = FALSE
                 /\ Len(pending') = Len(pending) - 1
                 /\ pending' = <<>>
                 /\ UserCount(messages') = UserCount(messages)
        /\ (/\ lastCall'.op \in SendOps
            /\ normalizeInput(lastCall'.arg) # <<>>
            /\ sessionId # Null
            /\ ~sending)
              => /\ Len(messages') = Len(messages) + 1
                 /\ messages'[Len(messages')].role = "user"
                 /\ messages'[Len(messages')].text = Trim(lastCall'.arg)
                 /\ pending' = Append(pending, Payload(sessionId, normalizeInput(lastCall'.arg)))
                 /\ sending'
      ]_vars

\* a send was accepted right after a rejected request had appended the apology
C21_Witness ==
    /\ lastCall.op \in SendOps
    /\ sending
    /\ Len(pending) = 1
    /\ Len(messages) >= 3
    /\ messages[Len(messages)].role = "user"
    /\ messages[Len(messages) - 1].text = ApologyText
    /\ UserCount(messages) = 2

(***************************************************************************)
(* Properties of the rendered list.  The component renders after every     *)
(* handler that sets state, as long as it is mounted.                      *)
(***************************************************************************)
\* C22: in no render are the call-to-action buttons of a message shown while its
\* reveal timer is installed, and a message with a non-empty link list shows them
\* in every render once its session has completed or a newer reply finalized it.
C22_CtaAfterTyping ==
    ~unmounted =>
       \A i \in 1..Len(messages) :
          /\ Typing(messages[i].id) => ~CtaDisplayed(messages[i])
          /\ (/\ messages[i].id \in TypedIds
              /\ messages[i].links # <<>>
              /\ ~Typing(messages[i].id))
                => CtaDisplayed(messages[i])

\* a reply with a link was typed to its end and shows its button, after it had
\* been rendered without
C22_Witness ==
    /\ ~unmounted
    /\ lastCall.op = "tick"
    /\ timers = {}
    /\ \E i \in 1..Len(messages) :
          /\ messages[i].links = <<[url |-> <<"https://", "spanmor.com.au">>,
                                    label |-> <<"https://", "spanmor.com.au">>]>>
          /\ messages[i].text = <<"https://", "spanmor.com.au">>
          /\ CtaDisplayed(messages[i])

\* C23: the links of a typed bot message are those of its full text from the
\* moment it is created and never change; a tick or a finalization replaces only
\* the text of the message with the target id and leaves its id, role and links
\* and every other message as they are.
C23_LinksSetOnce ==
    [][ /\ \A i \in 1..Len(messages) :
              /\ [messages'[i] EXCEPT !.text = messages[i].text] = messages[i]
              /\ messages'[i] # messages[i]
                    => /\ lastCall'.op \in {"tick", "settle"}
                       /\ messages[i].id = typingMessageIdRef
        /\ \A i \in 1..Len(messages') :
              messages'[i].id \in TypedIds'
                 => messages'[i].links = extractLinks(intended'[messages'[i].id])
      ]_vars

\* a tick revealed the first part of a reply whose link stems from its full text
C23_Witness ==
    /\ lastCall.op = "tick"
    /\ \E i \in 1..Len(messages) :
          /\ messages[i].text = <<"https://">>
          /\ intended[messages[i].id] = <<"https://", "spanmor.com.au">>
          /\ Len(messages[i].links) = 1
          /\ messages[i].links[1].url = <<"https://", "spanmor.com.au">>
          /\ Typing(messages[i].id)

\* where the message with the given id stands in the list, 0 when it is not listed
PositionOf(msgs, id) == FirstIn([i \in 1..Len(msgs) |-> msgs[i].id], 1, {id})

\* the position of the last bot message of the list, 0 when there is none
LastBot(msgs) ==
    LET bots == {i \in 1..Len(msgs) : msgs[i].role = "bot"}
    IN  IF bots = {} THEN 0 ELSE CHOOSE i \in bots : \A j \in bots : j <= i

\* C24 as stated: at every tick the message being updated is the last bot message
\* of the list.
C24_TickUpdatesLastBot ==
    [][ lastCall'.op = "tick"
           => \A t \in timers : PositionOf(messages, t.id) = LastBot(messages) ]_vars

\* C24, amended: at every tick the message being updated is the one created by the
\* latest invocation of the typewriter, found by its id: no typed message follows
\* it in the list, yet an apology appended after a rejected request may, and then
\* it is not the last bot message; no other message is changed by the tick.
C24_TickUpdatesTarget ==
    [][ lastCall'.op = "tick"
           => \A t \in timers :
                 /\ PositionOf(messages, t.id) > 0
                 /\ t.id = typingMessageIdRef
                 /\ \A j \in 1..Len(messages) :
                       /\ j > PositionOf(messages, t.id) => messages[j].id \notin TypedIds
                       /\ j # PositionOf(messages, t.id) => messages'[j] = messages[j]
                 /\ messages'[PositionOf(messages, t.id)].text
                       = SubSeq(t.text, 1, Min(t.i + 1, Len(t.text)))
      ]_vars

\* a tick revealed more of the welcome message after the apology for a rejected
\* request had been appended behind it
C24_Witness ==
    /\ lastCall.op = "tick"
    /\ Len(messages) = 3
    /\ messages[1].id \in TypedIds
    /\ messages[1].text = SubSeq(WelcomeText, 1, 2)
    /\ messages[2].role = "user"
    /\ messages[3].text = ApologyText
    /\ Typing(messages[1].id)

(***************************************************************************)
(* Properties of the scroll requests.  The scroll itself (container        *)
(* .scrollTop = container.scrollHeight) is done by the frame callback only.*)
(***************************************************************************)
\* C25: at most one scroll-to-bottom frame callback is pending at any time,
\* however many ticks or message changes ask for one before the frame runs; a
\* request only schedules, the frame callback alone scrolls, and it clears the
\* pending marker so that a later request schedules again.
C25_ScrollCoalesced ==
    /\ [](rafs <= 1 /\ (scrollRafRef <=> rafs = 1))
    /\ [][ /\ rafs' > rafs => (~scrollRafRef /\ lastCall'.op # "raf")
           /\ lastCall'.op = "raf" => (scrollRafRef /\ ~scrollRafRef' /\ rafs' = 0)
           /\ (lastCall'.op = "tick" /\ Container(started, unmounted))
                 => (scrollRafRef' /\ rafs' = 1)
         ]_vars

\* the frame ran and a later tick scheduled again, a second tick found it pending
C25_Witness ==
    /\ lastCall.op = "tick"
    /\ scrollRafRef
    /\ rafs = 1
    /\ \E t \in timers : t.i >= 2
    /\ \E i \in 1..Len(messages) : messages[i].role = "user"

(***************************************************************************)
(* Properties of the candidate selection of extractLinks.                  *)
(***************************************************************************)
\* the host units of a URL: what stands between the scheme and the path or query
HostUnits(u) ==
    LET ends == {i \in 2..Len(u) : u[i] \in {"/", "?"}}
        e == IF ends = {} THEN Len(u) ELSE First(ends) - 1
    IN  LowerSeq(SubSeq(u, 2, e))

OnAllowedDomain(u) == HostUnits(u) = <<ApexDomain>> \/ IsSubdomain(HostUnits(u))

HasQueryString(u) == \E i \in 1..(Len(u) - 1) : u[i] = "?"

\* the segments of the path: the units after the host and before the query
PathSegments(u) ==
    LET qs == {i \in 1..Len(u) : u[i] = "?"}
        last == IF qs = {} THEN Len(u) ELSE First(qs) - 1
    IN  Cardinality({i \in (Len(HostUnits(u)) + 2)..last : u[i] # "/"})

\* the bare URL qualifies next to Markdown links
Qualifies(b) ==
    LET u == stripTrailingPunct(b.url)
    IN  OnAllowedDomain(u) /\ (HasQueryString(u) \/ PathSegments(u) > 1)

BotsAfter(msgs, i) ==
    {j \in (i + 1)..Len(msgs) :
        /\ msgs[j].role = "bot"
        /\ \A k \in (i + 1)..j : msgs[k].role # "user"}

\* C29: an accepted send appends exactly one user message in the step that accepts
\* it, and only when the outcome of every earlier send has been appended; the
\* outcome of a send (the typed reply or the apology) appends at most one message,
\* a bot message; hence every user message of the list is followed by at most one
\* bot message before the next user message.
C29_OneBotPerUser ==
    /\ [](\A i \in 1..Len(messages) :
             messages[i].role = "user" => Cardinality(BotsAfter(messages, i)) <= 1)
    /\ [][ /\ Len(pending') > Len(pending)
              => /\ pending = <<>>
                 /\ Len(messages') = Len(messages) + 1
                 /\ messages'[Len(messages')].role = "user"
           /\ lastCall'.op \in {"settle", "reject"}
              => /\ Len(messages') \in {Len(messages), Len(messages) + 1}
                 /\ \A i \in 1..Len(messages) : messages'[i].role = messages[i].role
                 /\ Len(messages') > Len(messages) => messages'[Len(messages')].role = "bot"
           /\ UserCount(messages') > UserCount(messages)
              => (Len(pending') = Len(pending) + 1 /\ UserCount(messages') = UserCount(messages) + 1)
         ]_vars

\* two sends, the first answered by a typed reply and the second by the apology
C29_Witness ==
    /\ Len(messages) = 5
    /\ [i \in 1..5 |-> messages[i].role] = <<"bot", "user", "bot", "user", "bot">>
    /\ messages[3].hasLinks
    /\ messages[5].text = ApologyText
    /\ pending = <<>>

(***************************************************************************)
(* Properties of the session.                                              *)
(***************************************************************************)
\* C30: in every reachable state started implies a non-empty session id:
\* startNewConversation runs only while not started and sets both, no step resets
\* or changes either afterwards, and every request issued carries the session id
\* created at start.
C30_StartedHasSession ==
    /\ [](/\ started => sessionId # Null
          /\ \A k \in 1..Len(pending) :
                pending[k].sessionId # Null /\ pending[k].sessionId = sessionId)
    /\ [][ /\ lastCall'.op = "startNewConversation"
              => (~started /\ sessionId = Null /\ started' /\ sessionId' # Null)
           /\ started => (started' /\ sessionId' = sessionId)
           /\ sessionId # Null => started
           /\ Len(pending') > Len(pending)
              => (started /\ pending'[Len(pending')].sessionId = sessionId)
         ]_vars

\* the second request of a conversation is outstanding: it carries the session id
C30_Witness ==
    /\ started
    /\ sessionId # Null
    /\ UserCount(messages) = 2
    /\ Len(pending) = 1
    /\ pending[1].sessionId = sessionId
    /\ lastCall.op \in SendOps

====
